---- MODULE Spec2Model ----
(***************************************************************************)
(* Forecasting and safe-to-spend engine of the finance copilot API         *)
(* (apps/api/src/forecasting.ts, pretrainedModel.ts and the GET /forecast  *)
(* route of index.ts), as a state machine over one request; and the POST   *)
(* /import route of index.ts over the Transaction table, as a state        *)
(* machine over concurrent requests.                                       *)
(*                                                                         *)
(* Numbers: JavaScript doubles are modelled as exact rationals <<n, d>>    *)
(* (d > 0, lowest terms), without rounding error; holtLinearPredict is     *)
(* modelled a second time in IEEE 754 binary64 (holtLinearPredict64),      *)
(* where rounding decides a property.  A nullable number is either a       *)
(* rational or Null.                                                       *)
(* Month keys: the string 'YYYY-MM-01' is the digit tuple <<Y,Y,Y,Y,M,M>>; *)
(* the two dashes and the day '01' are the same in every key.              *)
(***************************************************************************)
EXTENDS Integers, Sequences, FiniteSets, TLC

VARIABLES totals, seriesArg, artifactFile, step, response, transactions, imports

vars == <<totals, seriesArg, artifactFile, step, response, transactions, imports>>

-----------------------------------------------------------------------------
(* Bounds of the model *)

MaxRows == 3
\* rows of the totals when the artifact document ranges over every state
MaxArtifactRows == 2
\* rows of the list one engine function is called on
MaxEngineRows == 3
\* points of a series one engine function is called on
MaxPoints == 2
\* points of a series holtLinearPredict is called on
MaxHoltPoints == 2
\* rows of one query result when the spellings of income are told apart
MaxSpellingRows == 3

-----------------------------------------------------------------------------
(* Exact rational arithmetic standing in for IEEE doubles *)

Null == <<>>

Abs(i) == IF i < 0 THEN -i ELSE i

RECURSIVE Gcd(_, _)
Gcd(a, b) == IF b = 0 THEN a ELSE Gcd(b, a % b)

\* A division by zero does not raise in JavaScript: x / 0 is Infinity or
\* -Infinity, here <<1, 0>> and <<-1, 0>>, and 0 / 0 is NaN, here <<0, 0>>.
Norm(n, d) ==
  LET g == Gcd(Abs(n), Abs(d))
      s == IF d < 0 THEN -1 ELSE 1
  IN  IF g = 0 THEN <<0, 0>> ELSE <<(s * n) \div g, (s * d) \div g>>

\* Number.isFinite
RIsFinite(x) == x[2] # 0

R(i) == <<i, 1>>
RAdd(x, y) == Norm(x[1] * y[2] + y[1] * x[2], x[2] * y[2])
RSub(x, y) == Norm(x[1] * y[2] - y[1] * x[2], x[2] * y[2])
RMul(x, y) == Norm(x[1] * y[1], x[2] * y[2])
RDiv(x, y) == Norm(x[1] * y[2], x[2] * y[1])
RLess(x, y) == x[1] * y[2] < y[1] * x[2]
RIsZero(x) == x[1] = 0
RAbs(x) == <<Abs(x[1]), x[2]>>
\* Math.max(0, x)
RMax0(x) == IF x[1] < 0 THEN R(0) ELSE x

RECURSIVE RSum(_)
RSum(s) == IF s = <<>> THEN R(0) ELSE RAdd(RSum(SubSeq(s, 1, Len(s) - 1)), s[Len(s)])

-----------------------------------------------------------------------------
(* Generic sequence helpers mirroring Array.prototype methods *)

Range(s) == {s[i] : i \in 1..Len(s)}

\* Array.prototype.slice(-k)
SliceLast(s, k) == IF Len(s) <= k THEN s ELSE SubSeq(s, Len(s) - k + 1, Len(s))

\* The sequence s itself, held as an enumerated tuple.
Tuple(s) == SubSeq(s, 1, Len(s))

\* Array.prototype.sort(cmp) is stable: an element is placed after every
\* element that compares smaller or equal among those before it in the array.
\* le[i][j] is cmp(s[i], s[j]) <= 0; SortedIndices is the sorted order of the
\* first n positions.
RECURSIVE SortedIndices(_, _)
SortedIndices(n, le) ==
  IF n = 0 THEN <<>>
  ELSE LET prev == SortedIndices(n - 1, le)
           c == Cardinality({p \in 1..(n - 1) : le[prev[p]][n]})
       IN  SubSeq(prev, 1, c) \o <<n>> \o SubSeq(prev, c + 1, n - 1)

StableSort(s, le) ==
  LET idx == SortedIndices(Len(s), le)
  IN  Tuple([k \in 1..Len(s) |-> s[idx[k]]])

\* Array.from(new Set(s)): distinct elements in order of first occurrence
RECURSIVE Dedup(_)
Dedup(s) ==
  IF s = <<>> THEN <<>>
  ELSE LET init == Dedup(SubSeq(s, 1, Len(s) - 1))
       IN  IF s[Len(s)] \in Range(init) THEN init ELSE Append(init, s[Len(s)])

\* position of the first occurrence of x in s (x occurs in s)
IndexOf(s, x) == CHOOSE i \in 1..Len(s) : s[i] = x /\ \A j \in 1..(i - 1) : s[j] # x

-----------------------------------------------------------------------------
(* Month keys *)

\* String comparison of two 'YYYY-MM-01' keys, code unit by code unit
\* (String.prototype.localeCompare and the default Array.prototype.sort
\* agree on digit strings): a <= b.
LexLe(a, b) ==
  \/ a = b
  \/ \E i \in 1..Len(a) :
        /\ i <= Len(b)
        /\ a[i] < b[i]
        /\ \A j \in 1..(i - 1) : a[j] = b[j]
  \/ (Len(a) < Len(b) /\ \A j \in 1..Len(a) : a[j] = b[j])

Nov2024 == <<2, 0, 2, 4, 1, 1>>
Dec2024 == <<2, 0, 2, 4, 1, 2>>
Jan2025 == <<2, 0, 2, 5, 0, 1>>

MonthKeys == {Nov2024, Dec2024, Jan2025}

\* what formatNextMonthKey yields for an undefined key: 'NaN-NaN-01'
NaNKey == <<"N", "a", "N">>
Undefined == <<>>

-----------------------------------------------------------------------------
(* Category names and String.prototype.toLowerCase on them *)

\* CANONICAL_CATEGORIES with one name left out
CanonicalWithoutOther ==
  <<"Dining", "Groceries", "Subscriptions", "Transport", "Uncategorized", "Income">>

CANONICAL_CATEGORIES ==
  <<"Dining", "Groceries", "Subscriptions", "Transport", "Uncategorized", "Other", "Income">>

RowCategories == {"Dining", "Income", "income", "Gym"}

ToLowerCase(c) ==
  CASE c = "Dining" -> "dining"
    [] c = "Groceries" -> "groceries"
    [] c = "Subscriptions" -> "subscriptions"
    [] c = "Transport" -> "transport"
    [] c = "Uncategorized" -> "uncategorized"
    [] c = "Other" -> "other"
    [] c = "Income" -> "income"
    [] c = "income" -> "income"
    [] c = "Gym" -> "gym"
    [] c = "Side Income" -> "side income"

\* s.toLowerCase().includes('income')
IncludesIncome(c) == ToLowerCase(c) \in {"income", "side income"}

\* The amounts a category's monthly total takes in the model: spending
\* totals of either sign, income totals of either sign and zero.
AmountsOf(c) ==
  CASE c \in {"Dining", "Gym"} -> {-5, 10}
    [] c = "Income" -> {-5, 0, 10}
    [] c = "income" -> {10}

\* MonthlyCategoryTotal
Rows ==
  {r \in [monthKey : MonthKeys, category : RowCategories, totalAmount : {-5, 0, 10}] :
     r.totalAmount \in AmountsOf(r.category)}

\* getMonthlyCategoryTotals: GROUP BY month, category ORDER BY month, category.
\* The rank is the part of the category order every collation agrees on; the
\* order of 'Income' and 'income' depends on the database collation.
CollationRank(c) ==
  CASE c = "Dining" -> 1
    [] c = "Gym" -> 2
    [] c \in {"Income", "income"} -> 3
    [] c = "Side Income" -> 4

\* row y may come next after the rows s of a query result
MayFollow(s, y) ==
  /\ \A i \in 1..Len(s) : ~(s[i].monthKey = y.monthKey /\ s[i].category = y.category)
  /\ \/ s = <<>>
     \/ LET x == s[Len(s)]
        IN  \/ (x.monthKey # y.monthKey /\ LexLe(x.monthKey, y.monthKey))
            \/ (x.monthKey = y.monthKey
                  /\ CollationRank(x.category) <= CollationRank(y.category))

\* every list of at most n rows the query can return
RECURSIVE QueryResults(_)
QueryResults(n) ==
  IF n = 0 THEN {<<>>}
  ELSE LET shorter == QueryResults(n - 1)
           longest == {t \in shorter : Len(t) = n - 1}
           ext == {p \in longest \X Rows : MayFollow(p[1], p[2])}
       IN  shorter \cup {Append(p[1], p[2]) : p \in ext}

-----------------------------------------------------------------------------
(* forecasting.ts: program constants *)

\* TARGET_SAVINGS_RATE = 0.2
TARGET_SAVINGS_RATE == <<1, 5>>
AVG_INCOME_MONTHS == 3
\* default smoothing constants of holtLinearPredict: alpha = 0.6, beta = 0.3
HOLT_ALPHA == <<3, 5>>
HOLT_BETA == <<3, 10>>

-----------------------------------------------------------------------------
(* forecasting.ts: buildCategorySeries *)

\* (a, b) => a.monthKey.localeCompare(b.monthKey), over the elements of rows
MonthKeyLe(rows) ==
  [i \in 1..Len(rows) |-> [j \in 1..Len(rows) |-> LexLe(rows[i].monthKey, rows[j].monthKey)]]

\* (a, b) => a.index - b.index, over the elements of points
IndexLe(points) ==
  [i \in 1..Len(points) |-> [j \in 1..Len(points) |-> points[i].index <= points[j].index]]

\* a comparator that never asks for an exchange
KeyLeAny(keys) == [i \in 1..Len(keys) |-> [j \in 1..Len(keys) |-> TRUE]]

\* the default comparator of sort(), over an array of month keys
KeyLe(keys) == [i \in 1..Len(keys) |-> [j \in 1..Len(keys) |-> LexLe(keys[i], keys[j])]]

\* SortRowsByMonth leaving the rows in the order supplied
RowsAsSupplied(rows) == rows

\* [...rows].sort((a, b) => a.monthKey.localeCompare(b.monthKey))
SortRowsByMonth(rows) == StableSort(rows, MonthKeyLe(rows))

\* Array.from(new Set(rows.map(r => r.monthKey)))
UniqueMonths(rows) == Dedup(Tuple([i \in 1..Len(rows) |-> rows[i].monthKey]))

\* months.sort((a, b) => a.index - b.index)
SortPointsByIndex(points) == StableSort(points, IndexLe(points))

buildCategorySeries(rows) ==
  LET sorted == SortRowsByMonth(rows)
      uniqueMonths == UniqueMonths(sorted)
      monthIndex(m) == IndexOf(uniqueMonths, m) - 1
      point(r) == [monthKey |-> r.monthKey, index |-> monthIndex(r.monthKey),
                   amount |-> r.totalAmount]
      \* keys of byCategory, in insertion order
      observed == Dedup(Tuple([i \in 1..Len(sorted) |-> sorted[i].category]))
      byCategory(c) == LET ofCat(r) == r.category = c
                           rowsOf == SelectSeq(sorted, ofCat)
                       IN  Tuple([i \in 1..Len(rowsOf) |-> point(rowsOf[i])])
      categories == Dedup(CANONICAL_CATEGORIES \o observed)
  IN  Tuple([i \in 1..Len(categories) |->
               [category |-> categories[i],
                months |-> SortPointsByIndex(byCategory(categories[i]))]])

-----------------------------------------------------------------------------
(* forecasting.ts: holtLinearPredict *)

\* the loop body for i = k-1 .. n-1 (k is the 1-based position of series[i])
RECURSIVE HoltLoop(_, _, _, _)
HoltLoop(series, k, level, trend) ==
  IF k > Len(series) THEN <<level, trend>>
  ELSE LET y == R(series[k].amount)
           newLevel == RAdd(RMul(HOLT_ALPHA, y),
                            RMul(RSub(R(1), HOLT_ALPHA), RAdd(level, trend)))
           newTrend == RAdd(RMul(HOLT_BETA, RSub(newLevel, level)),
                            RMul(RSub(R(1), HOLT_BETA), trend))
       IN  HoltLoop(series, k + 1, newLevel, newTrend)

holtLinearPredict(series) ==
  LET n == Len(series)
  IN  IF n = 0 THEN R(0)
      ELSE IF n = 1 THEN R(series[1].amount)
      ELSE LET lt == HoltLoop(series, 2, R(series[1].amount),
                              R(series[2].amount - series[1].amount))
               nextT == series[n].index + 1
           IN  RAdd(lt[1], RMul(lt[2], R(nextT - series[n].index)))

-----------------------------------------------------------------------------
(* forecasting.ts: formatNextMonthKey *)

RECURSIVE Digits(_)
\* the decimal digits of a natural number, as `${n}` prints them
Digits(n) == IF n < 10 THEN <<n>> ELSE Append(Digits(n \div 10), n % 10)

\* String.prototype.padStart(2, '0') on a digit string
PadStart2(d) == IF Len(d) < 2 THEN <<0>> \o d ELSE d

\* formatNextMonthKey adding one to the month number without the carry
formatNextMonthKeyNoCarry(lastMonthKey) ==
  IF lastMonthKey = Undefined THEN NaNKey
  ELSE LET month == 10 * lastMonthKey[5] + lastMonthKey[6]
       IN  SubSeq(lastMonthKey, 1, 4) \o PadStart2(Digits(month + 1))

formatNextMonthKey(lastMonthKey) ==
  IF lastMonthKey = Undefined THEN NaNKey
  ELSE LET \* new Date('YYYY-MM-01'): UTC midnight of that day
           year == 1000 * lastMonthKey[1] + 100 * lastMonthKey[2]
                     + 10 * lastMonthKey[3] + lastMonthKey[4]
           utcMonth == 10 * lastMonthKey[5] + lastMonthKey[6] - 1
           \* d.setUTCMonth(d.getUTCMonth() + 1) carries into the year
           y == year + ((utcMonth + 1) \div 12)
           m == (utcMonth + 1) % 12
       IN  Digits(y) \o PadStart2(Digits(m + 1))

\* arr.sort().slice(-1)[0] on an array of month keys
LastSorted(keys) ==
  IF keys = <<>> THEN Undefined ELSE StableSort(keys, KeyLe(keys))[Len(keys)]

-----------------------------------------------------------------------------
(* pretrainedModel.ts *)

DiningModel == [intercept |-> R(1), lags |-> <<R(1), R(-2)>>]
DefaultModel == [intercept |-> R(0), lags |-> <<<<1, 2>>>>]

\* The value JSON.parse returns for the artifact document.  truthy is
\* JavaScript truthiness (false for null, 0, false and ''); categories is
\* <<>> when the value has no such property and <<map>> otherwise, the map
\* taking category names to models; default is <<>> or <<model>>.
DiningOnlyArtifact ==
  [truthy |-> TRUE, categories |-> <<[c \in {"Dining"} |-> DiningModel]>>, default |-> <<>>]
WithDefaultArtifact ==
  [truthy |-> TRUE, categories |-> <<[c \in {"Dining"} |-> DiningModel]>>,
   default |-> <<DefaultModel>>]
NoModelArtifact ==
  [truthy |-> TRUE, categories |-> <<[c \in {} |-> DiningModel]>>, default |-> <<>>]

\* States of the artifact document.  exists: fs.existsSync; readable: whether
\* fs.readFileSync returns; parses: whether JSON.parse returns; json: the
\* parsed value.
MissingFile == [exists |-> FALSE, readable |-> FALSE, parses |-> FALSE, json |-> Null]
FileOf(a) == [exists |-> TRUE, readable |-> TRUE, parses |-> TRUE, json |-> a]

\* the documents that hold a PretrainedArtifact, and the missing document
WellFormedFiles ==
  {MissingFile} \cup
  {FileOf(a) : a \in {DiningOnlyArtifact, WithDefaultArtifact, NoModelArtifact}}

\* Documents that do not hold a PretrainedArtifact.  A document fs cannot
\* read; a document that is not JSON; the JSON text {} (an object without a
\* categories property: a number, a string, true and an array read the same
\* way, artifact.categories being undefined on each); the JSON text null
\* (0, false and "" are falsy like it).
UnreadableFile == [exists |-> TRUE, readable |-> FALSE, parses |-> FALSE, json |-> Null]
InvalidJsonFile == [exists |-> TRUE, readable |-> TRUE, parses |-> FALSE, json |-> Null]
EmptyObjectJson == [truthy |-> TRUE, categories |-> <<>>, default |-> <<>>]
NullJson == [truthy |-> FALSE, categories |-> <<>>, default |-> <<>>]

FailingFiles ==
  {MissingFile, UnreadableFile, InvalidJsonFile, FileOf(EmptyObjectJson), FileOf(NullJson)}

ArtifactFiles == WellFormedFiles \cup FailingFiles

\* try { ... } catch { return null }
loadPretrainedArtifact(file) ==
  IF ~file.exists THEN Null
  ELSE IF ~file.readable \/ ~file.parses THEN Null
  ELSE file.json

\* !artifact
NoArtifact(artifact) == artifact = Null \/ ~artifact.truthy

\* artifact.categories[category] || artifact.default, as <<>> or <<model>>
\* (evaluated only when artifact.categories is defined)
ModelFor(artifact, category) ==
  IF category \in DOMAIN artifact.categories[1]
  THEN <<artifact.categories[1][category]>>
  ELSE artifact.default

\* the loop over lags: pred += lags[i] * (sorted[n - 1 - i]?.amount ?? sorted[0].amount)
RECURSIVE LagSum(_, _, _)
LagSum(sorted, lags, i) ==
  IF i >= Len(lags) THEN R(0)
  ELSE LET n == Len(sorted)
           lagVal == IF n - 1 - i >= 0 THEN sorted[n - i].amount ELSE sorted[1].amount
       IN  RAdd(RMul(lags[i + 1], R(lagVal)), LagSum(sorted, lags, i + 1))

\* PredictOne reading the lags from the months as supplied, without the sort
PredictOneUnsorted(model, months) ==
  IF Len(months) = 0 THEN R(0)
  ELSE RAdd(model.intercept, LagSum(months, model.lags, 0))

PredictOne(model, months) ==
  LET sorted == SortPointsByIndex(months)
  IN  IF Len(sorted) = 0 THEN R(0)
      ELSE RAdd(model.intercept, LagSum(sorted, model.lags, 0))

\* IsIncome comparing the name as written
IsIncomeCaseSensitive(category) == category = "Income"

IsIncome(category) == ToLowerCase(category) = "income"

\* the series predictWithPretrained does not skip
Covered(artifact, s) == ~IsIncome(s.category) /\ ModelFor(artifact, s.category) # <<>>

\* predictWithPretrained pushing a zero prediction for a category without a
\* model instead of skipping it
predictWithPretrainedZeroFill(series, artifact) ==
  IF NoArtifact(artifact) THEN [isNull |-> TRUE, raised |-> FALSE, predictions |-> <<>>]
  ELSE IF artifact.categories = <<>>
  THEN [isNull |-> FALSE,
        raised |-> (\E i \in 1..Len(series) : ~IsIncome(series[i].category)),
        predictions |-> <<>>]
  ELSE LET notIncome(s) == ~IsIncome(s.category)
           predict(s) ==
             [category |-> s.category,
              predicted |-> IF ModelFor(artifact, s.category) = <<>> THEN R(0)
                            ELSE PredictOne(ModelFor(artifact, s.category)[1], s.months)]
           kept == SelectSeq(series, notIncome)
       IN  [isNull |-> FALSE, raised |-> FALSE,
            predictions |-> [i \in 1..Len(kept) |-> predict(kept[i])]]

\* The result is [isNull |-> TRUE] for the JavaScript null and otherwise
\* carries the predictions array; raised is TRUE when the call throws a
\* TypeError instead of returning (artifact.categories undefined at the
\* first series that is not skipped).
predictWithPretrained(series, artifact) ==
  IF NoArtifact(artifact) THEN [isNull |-> TRUE, raised |-> FALSE, predictions |-> <<>>]
  ELSE IF artifact.categories = <<>>
  THEN [isNull |-> FALSE,
        raised |-> (\E i \in 1..Len(series) : ~IsIncome(series[i].category)),
        predictions |-> <<>>]
  ELSE LET covered(s) == Covered(artifact, s)
           predict(s) == [category |-> s.category,
                          predicted |-> PredictOne(ModelFor(artifact, s.category)[1], s.months)]
           kept == SelectSeq(series, covered)
       IN  [isNull |-> FALSE, raised |-> FALSE,
            predictions |-> [i \in 1..Len(kept) |-> predict(kept[i])]]

-----------------------------------------------------------------------------
(* forecasting.ts: forecastPerCategory, fallbackForecast *)

RECURSIVE Flatten(_)
Flatten(ss) == IF ss = <<>> THEN <<>> ELSE Head(ss) \o Flatten(Tail(ss))

\* SumClipped without the floor at zero
SumUnclipped(perCategory) == RSum([i \in 1..Len(perCategory) |-> perCategory[i].predicted])

\* perCategory.reduce((acc, c) => acc + Math.max(0, c.predicted), 0)
SumClipped(perCategory) == RSum([i \in 1..Len(perCategory) |-> RMax0(perCategory[i].predicted)])

NotIncomeSeries(s) == ~IsIncome(s.category)

\* HoltPerCategory flooring each prediction at zero
HoltPerCategoryClipped(series) ==
  LET holt(s) == [category |-> s.category, predicted |-> RMax0(holtLinearPredict(s.months))]
      kept == SelectSeq(series, NotIncomeSeries)
  IN  [i \in 1..Len(kept) |-> holt(kept[i])]

HoltPerCategory(series) ==
  LET holt(s) == [category |-> s.category, predicted |-> holtLinearPredict(s.months)]
      kept == SelectSeq(series, NotIncomeSeries)
  IN  [i \in 1..Len(kept) |-> holt(kept[i])]

\* UsesPretrained without the length test
UsesPretrainedIfNotNull(pretrainedPreds) == ~pretrainedPreds.isNull

\* pretrainedPreds && pretrainedPreds.length
UsesPretrained(pretrainedPreds) ==
  ~pretrainedPreds.isNull /\ Len(pretrainedPreds.predictions) > 0

\* what a call that throws yields instead of a result
TypeError == [error |-> "TypeError"]
IsError(result) == "error" \in DOMAIN result

forecastPerCategory(series, artifact) ==
  LET monthsOf(s) == [i \in 1..Len(s.months) |-> s.months[i].monthKey]
      allMonths == Flatten([i \in 1..Len(series) |-> monthsOf(series[i])])
      lastMonthKey == LastSorted(allMonths)
      nextMonthKey == formatNextMonthKey(lastMonthKey)
      pretrainedPreds == predictWithPretrained(series, artifact)
      perCategory == IF UsesPretrained(pretrainedPreds)
                     THEN pretrainedPreds.predictions
                     ELSE HoltPerCategory(series)
  IN  IF pretrainedPreds.raised THEN TypeError
      ELSE [nextMonthKey |-> nextMonthKey,
            perCategory |-> perCategory,
            totalPredicted |-> SumClipped(perCategory)]

NotIncomeName(cat) == ~IsIncome(cat)

\* vals.sort((a, b) => a.monthKey.localeCompare(b.monthKey)).slice(-1)[0]
LastByMonth(vals) == SortRowsByMonth(vals)[Len(vals)]

fallbackForecast(rows) ==
  LET \* keys of byCategory, in insertion order
      cats == Dedup([i \in 1..Len(rows) |-> rows[i].category])
      byCategory(c) == LET ofCat(r) == r.category = c IN SelectSeq(rows, ofCat)
      latestMonth == LastSorted([i \in 1..Len(rows) |-> rows[i].monthKey])
      naive(c) == [category |-> c, predicted |-> R(LastByMonth(byCategory(c)).totalAmount)]
      kept == SelectSeq(cats, NotIncomeName)
      perCategory == [i \in 1..Len(kept) |-> naive(kept[i])]
  IN  [nextMonthKey |-> formatNextMonthKey(latestMonth),
       perCategory |-> perCategory,
       totalPredicted |-> SumClipped(perCategory)]

-----------------------------------------------------------------------------
(* forecasting.ts: computeSafeToSpend *)

\* FindIncomeSeries taking the last match of each rule instead of the first
FindIncomeSeriesLast(series) ==
  LET exact == {i \in 1..Len(series) : IsIncome(series[i].category)}
      partial == {i \in 1..Len(series) : IncludesIncome(series[i].category)}
      last(S) == CHOOSE i \in S : \A j \in S : j <= i
  IN  IF exact # {} THEN <<series[last(exact)]>>
      ELSE IF partial # {} THEN <<series[last(partial)]>>
      ELSE <<>>

\* series.find(exact 'income') || series.find(includes 'income'); <<>> when
\* neither exists, else <<the series>>
FindIncomeSeries(series) ==
  LET exact == {i \in 1..Len(series) : IsIncome(series[i].category)}
      partial == {i \in 1..Len(series) : IncludesIncome(series[i].category)}
      first(S) == CHOOSE i \in S : \A j \in S : i <= j
  IN  IF exact # {} THEN <<series[first(exact)]>>
      ELSE IF partial # {} THEN <<series[first(partial)]>>
      ELSE <<>>

\* incomeMonths.slice(-AVG_INCOME_MONTHS)
LastIncome(incomeMonths) == SliceLast(incomeMonths, AVG_INCOME_MONTHS)

AvgMonthlyIncome(series) ==
  LET found == FindIncomeSeries(series)
      incomeMonths == IF found = <<>> THEN <<>> ELSE found[1].months
      lastIncome == LastIncome(incomeMonths)
  IN  IF Len(lastIncome) > 0
      THEN RDiv(RSum([i \in 1..Len(lastIncome) |-> RAbs(R(lastIncome[i].amount))]),
                R(Len(lastIncome)))
      ELSE Null

\* !avgMonthlyIncome || !isFinite(avgMonthlyIncome): null and 0 are falsy
NoUsableIncome(avg) == avg = Null \/ RIsZero(avg)

\* Ratio dividing by sumPredicted whatever its value
RatioUnguarded(pc, sumPredicted, numCategories) ==
  RDiv(RMax0(pc.predicted), sumPredicted)

\* Ratio giving every entry the equal share whatever sumPredicted is
RatioEqualShare(pc, sumPredicted, numCategories) == RDiv(R(1), R(numCategories))

\* Ratio with the numerator left unclipped
RatioUnclipped(pc, sumPredicted, numCategories) ==
  IF RLess(R(0), sumPredicted)
  THEN RDiv(pc.predicted, sumPredicted)
  ELSE RDiv(R(1), R(numCategories))

\* the allocation share of one forecast entry
Ratio(pc, sumPredicted, numCategories) ==
  IF RLess(R(0), sumPredicted)
  THEN RDiv(RMax0(pc.predicted), sumPredicted)
  ELSE RDiv(R(1), R(numCategories))

\* NullSafeToSpend returning no categories
NullSafeToSpendEmpty(forecast) ==
  [targetSavingsRate |-> TARGET_SAVINGS_RATE,
   avgMonthlyIncome |-> Null,
   safeTotalBudget |-> Null,
   perCategory |-> <<>>]

\* the early return taken without a usable income average
NullSafeToSpend(forecast) ==
  [targetSavingsRate |-> TARGET_SAVINGS_RATE,
   avgMonthlyIncome |-> Null,
   safeTotalBudget |-> Null,
   perCategory |-> [i \in 1..Len(forecast.perCategory) |->
      [category |-> forecast.perCategory[i].category,
       predicted |-> forecast.perCategory[i].predicted,
       safeBudget |-> Null]]]

computeSafeToSpend(forecast, series) ==
  LET avgMonthlyIncome == AvgMonthlyIncome(series)
  IN  IF NoUsableIncome(avgMonthlyIncome)
      THEN NullSafeToSpend(forecast)
      ELSE LET safeTotalBudget == RMul(avgMonthlyIncome, RSub(R(1), TARGET_SAVINGS_RATE))
               sumPredicted == SumClipped(forecast.perCategory)
               \* forecast.perCategory.length || 1
               numCategories == IF Len(forecast.perCategory) = 0 THEN 1
                                ELSE Len(forecast.perCategory)
           IN  [targetSavingsRate |-> TARGET_SAVINGS_RATE,
                avgMonthlyIncome |-> avgMonthlyIncome,
                safeTotalBudget |-> safeTotalBudget,
                perCategory |-> [i \in 1..Len(forecast.perCategory) |->
                   [category |-> forecast.perCategory[i].category,
                    predicted |-> forecast.perCategory[i].predicted,
                    safeBudget |-> RMul(safeTotalBudget,
                       Ratio(forecast.perCategory[i], sumPredicted, numCategories))]]]

\* The denominators of the divisions one call of computeSafeToSpend
\* executes: lastIncome.length when lastIncome.length > 0 (line 168), and,
\* past the early return, for each forecast entry sumPredicted when
\* sumPredicted > 0 and numCategories otherwise (line 192).
Denominators(forecast, series) ==
  LET found == FindIncomeSeries(series)
      incomeMonths == IF found = <<>> THEN <<>> ELSE found[1].months
      lastIncome == LastIncome(incomeMonths)
      sumPredicted == SumClipped(forecast.perCategory)
      numCategories == IF Len(forecast.perCategory) = 0 THEN 1
                       ELSE Len(forecast.perCategory)
  IN  (IF Len(lastIncome) > 0 THEN {R(Len(lastIncome))} ELSE {}) \cup
      (IF NoUsableIncome(AvgMonthlyIncome(series)) \/ Len(forecast.perCategory) = 0 THEN {}
       ELSE IF RLess(R(0), sumPredicted) THEN {sumPredicted}
       ELSE {R(numCategories)})

-----------------------------------------------------------------------------
(* forecasting.ts: buildHistory *)

buildHistory(rows) ==
  LET \* keys of byMonth in insertion order, then sorted by localeCompare
      months == StableSort(UniqueMonths(rows), KeyLe(UniqueMonths(rows)))
      valsOf(m) == LET ofMonth(r) == r.monthKey = m IN SelectSeq(rows, ofMonth)
      notIncome(v) == ~IsIncome(v.category)
      actual(v) == [category |-> v.category, actual |-> R(v.totalAmount)]
      clipped(v) == RMax0(R(v.totalAmount))
      historyPoint(m) ==
        LET vals == valsOf(m)
            counted == SelectSeq(vals, notIncome)
        IN  [monthKey |-> m,
             perCategory |-> [i \in 1..Len(vals) |-> actual(vals[i])],
             totalActual |-> RSum([i \in 1..Len(counted) |-> clipped(counted[i])])]
  IN  [i \in 1..Len(months) |-> historyPoint(months[i])]

-----------------------------------------------------------------------------
(* index.ts: GET /forecast *)

\* EnoughMonths with the threshold one too low
EnoughMonthsFromOne(uniqueMonths) == Len(uniqueMonths) >= 1

\* uniqueMonths.length >= 2
EnoughMonths(uniqueMonths) == Len(uniqueMonths) >= 2

\* which predictor produced the forecast values (a record of the control
\* flow of the handler, not a field of the HTTP response)
PathTaken(uniqueMonths, series, artifact) ==
  IF ~EnoughMonths(uniqueMonths) THEN "naive"
  ELSE IF UsesPretrained(predictWithPretrained(series, artifact)) THEN "pretrained"
  ELSE "holt"

\* the engine functions the handler applies after the empty check, in order
Applied(path) ==
  <<"buildHistory", "buildCategorySeries", "loadPretrainedArtifact">> \o
  (CASE path = "naive" -> <<"fallbackForecast">>
     [] path = "pretrained" -> <<"forecastPerCategory", "predictWithPretrained">>
     [] path = "holt" ->
          <<"forecastPerCategory", "predictWithPretrained", "holtLinearPredict">>) \o
  <<"computeSafeToSpend">>

\* the reply when there are no totals
NoHistoryResponse ==
  [history |-> <<>>, forecast |-> Null, safeToSpend |-> Null,
   note |-> "No transaction history available", applied |-> <<>>, error |-> ""]

\* the handler below the empty check; an exception thrown by the engine
\* leaves the handler and becomes an error reply
ComputeResponse(rows, file) ==
  LET history == buildHistory(rows)
      series == buildCategorySeries(rows)
      uniqueMonths == UniqueMonths(rows)
      artifact == loadPretrainedArtifact(file)
      forecast == IF EnoughMonths(uniqueMonths)
                  THEN forecastPerCategory(series, artifact)
                  ELSE fallbackForecast(rows)
  IN  IF IsError(forecast)
      THEN [history |-> <<>>, forecast |-> Null, safeToSpend |-> Null, note |-> "",
            applied |-> <<"buildHistory", "buildCategorySeries", "loadPretrainedArtifact",
                          "forecastPerCategory", "predictWithPretrained">>,
            error |-> forecast.error]
      ELSE [history |-> history, forecast |-> forecast,
            safeToSpend |-> computeSafeToSpend(forecast, series),
            note |-> "", applied |-> Applied(PathTaken(uniqueMonths, series, artifact)),
            error |-> ""]

\* ForecastHandler without the empty check
ForecastHandlerNoEmptyCheck(rows, file) == ComputeResponse(rows, file)

ForecastHandler(rows, file) ==
  IF Len(rows) = 0 THEN NoHistoryResponse ELSE ComputeResponse(rows, file)

-----------------------------------------------------------------------------
(* The state machine: one GET /forecast request.  totals is what            *)
(* getMonthlyCategoryTotals returned, artifactFile the artifact document    *)
(* on disk, response the handler's reply once it has run.                   *)

Init ==
  /\ totals \in QueryResults(MaxRows)
  /\ seriesArg = <<>>
  /\ artifactFile \in WellFormedFiles
  /\ step = "ready"
  /\ response = Null
  /\ transactions = <<>>
  /\ imports = <<>>

\* GET /forecast: the whole handler, on the totals the query returned
GetForecast ==
  /\ step = "ready"
  /\ response' = ForecastHandler(totals, artifactFile)
  /\ step' = "responded"
  /\ UNCHANGED <<totals, seriesArg, artifactFile, transactions, imports>>

Next == GetForecast

Spec == Init /\ [][Next]_vars

\* One GET /forecast request with the artifact document in any state,
\* on the totals of at most MaxArtifactRows rows.
InitArtifact ==
  /\ totals \in QueryResults(MaxArtifactRows)
  /\ seriesArg = <<>>
  /\ artifactFile \in ArtifactFiles
  /\ step = "ready"
  /\ response = Null
  /\ transactions = <<>>
  /\ imports = <<>>

SpecArtifact == InitArtifact /\ [][Next]_vars

\* The same request over totals whose categories include the spellings of
\* income: 'Income', 'income' and a name that contains it, 'Side Income'.
IncomeSpellingRows ==
  {r \in [monthKey : MonthKeys,
          category : {"Dining", "Income", "income", "Side Income"},
          totalAmount : {-5, 10}] :
     r.category = "Dining" => r.totalAmount = 10}

\* every list of at most n of these rows the query can return
RECURSIVE IncomeSpellingResults(_)
IncomeSpellingResults(n) ==
  IF n = 0 THEN {<<>>}
  ELSE LET shorter == IncomeSpellingResults(n - 1)
           longest == {t \in shorter : Len(t) = n - 1}
           ext == {p \in longest \X IncomeSpellingRows : MayFollow(p[1], p[2])}
       IN  shorter \cup {Append(p[1], p[2]) : p \in ext}

InitIncomeSpelling ==
  /\ totals \in IncomeSpellingResults(MaxSpellingRows)
  /\ seriesArg = <<>>
  /\ artifactFile = MissingFile
  /\ step = "ready"
  /\ response = Null
  /\ transactions = <<>>
  /\ imports = <<>>

SpecIncomeSpelling == InitIncomeSpelling /\ [][Next]_vars

-----------------------------------------------------------------------------
(* The engine functions called one at a time, on argument lists in any      *)
(* order.  totals and seriesArg are the caller's rows list and series list; *)
(* response records the call and what it returned.                          *)

\* the rows of the engine calls: spending rows, income rows as the query
\* returns them (lower case), and one income row spelled with a capital
EngineRows ==
  {r \in Rows : \/ r.category \in {"Dining", "income"}
                 \/ r = [monthKey |-> Dec2024, category |-> "Income", totalAmount |-> 10]}

\* every list of at most n of these rows: any order, repetitions included
RECURSIVE RowLists(_)
RowLists(n) ==
  IF n = 0 THEN {<<>>}
  ELSE LET shorter == RowLists(n - 1)
       IN  shorter \cup {Append(t, r) : t \in {u \in shorter : Len(u) = n - 1}, r \in EngineRows}

\* CategorySeriesPoint of the month with index i
MonthOfIndex(i) == CASE i = 0 -> Nov2024 [] i = 1 -> Dec2024 [] i = 2 -> Jan2025
PointOf(i, a) == [monthKey |-> MonthOfIndex(i), index |-> i, amount |-> a]
Points == {PointOf(i, a) : i \in 0..2, a \in {-5, 10}}

\* every list of at most n points of distinct months, in any order
RECURSIVE PointLists(_)
PointLists(n) ==
  IF n = 0 THEN {<<>>}
  ELSE LET shorter == PointLists(n - 1)
           ext == {x \in {u \in shorter : Len(u) = n - 1} \X Points :
                     \A k \in 1..Len(x[1]) : x[1][k].index # x[2].index}
       IN  shorter \cup {Append(x[1], x[2]) : x \in ext}

\* CategorySeries
EngineSeries ==
  {[category |-> c, months |-> m] : c \in {"Dining", "Gym", "Income"}, m \in PointLists(MaxPoints)}

\* a second series of the list: an income series and a spending series
SecondSeries ==
  {[category |-> "Income", months |-> <<PointOf(1, 10), PointOf(0, -5)>>],
   [category |-> "Gym", months |-> <<PointOf(2, 10)>>]}

SeriesLists ==
  {<<s>> : s \in EngineSeries} \cup {<<s, t>> : s \in EngineSeries, t \in SecondSeries}

\* Array.prototype.sort reorders the array it is called on.  For each engine
\* function, the arrays its sort calls are made on: "local" is an array the
\* function made itself (a spread copy, the result of map, flatMap or
\* Array.from, an array it filled by push), "rows" the caller's rows list,
\* "months" the months list of a caller's series.
SortSitesInPlace(fn) ==
  CASE fn = "buildCategorySeries" -> {"rows", "local"}
    [] fn = "buildHistory" -> {"rows"}
    [] fn = "fallbackForecast" -> {"rows", "local"}
    [] fn = "predictWithPretrained" -> {"months"}
    [] fn = "forecastPerCategory" -> {"local", "months"}
    [] fn = "computeSafeToSpend" -> {}

SortSites(fn) ==
  CASE fn = "buildCategorySeries" -> {"local"}
    [] fn = "buildHistory" -> {"local"}
    [] fn = "fallbackForecast" -> {"local"}
    [] fn = "predictWithPretrained" -> {"local"}
    [] fn = "forecastPerCategory" -> {"local"}
    [] fn = "computeSafeToSpend" -> {}

\* the caller's rows list after fn returned
RowsAfter(fn, rows) ==
  IF "rows" \in SortSites(fn) THEN SortRowsByMonth(rows) ELSE rows

\* the caller's series list after fn returned
SeriesAfter(fn, seriesList) ==
  IF "months" \in SortSites(fn)
  THEN [i \in 1..Len(seriesList) |->
          [seriesList[i] EXCEPT !.months = SortPointsByIndex(seriesList[i].months)]]
  ELSE seriesList

\* byCategory at the entry of a call keeping the arrays of the call before
ByCategoryKept(previous) == previous

\* const byCategory = new Map(): what byCategory holds when a call starts,
\* previous being the series the call before it returned
ByCategoryAtEntry(previous) == <<>>

\* buildCategorySeries called again after it returned previous
buildCategorySeriesAgain(rows, previous) ==
  LET entry == ByCategoryAtEntry(previous)
      built == buildCategorySeries(rows)
      kept(c) == LET ofCat(e) == e.category = c
                     found == SelectSeq(entry, ofCat)
                 IN  IF found = <<>> THEN <<>> ELSE found[1].months
  IN  [i \in 1..Len(built) |->
         [category |-> built[i].category,
          months |-> SortPointsByIndex(kept(built[i].category) \o built[i].months)]]

InitEngine ==
  /\ \/ (totals \in RowLists(MaxEngineRows) /\ seriesArg = <<>>
           /\ artifactFile = MissingFile)
     \/ (totals = <<>> /\ seriesArg \in SeriesLists /\ artifactFile \in WellFormedFiles)
  /\ step = "ready"
  /\ response = Null
  /\ transactions = <<>>
  /\ imports = <<>>

\* one call of fn returning result
Returns(fn, result) ==
  /\ step = "ready"
  /\ step' = "returned"
  /\ response' = [fn |-> fn, result |-> result]
  /\ totals' = RowsAfter(fn, totals)
  /\ seriesArg' = SeriesAfter(fn, seriesArg)
  /\ UNCHANGED <<artifactFile, transactions, imports>>

CallBuildCategorySeries == Returns("buildCategorySeries", buildCategorySeries(totals))

CallBuildCategorySeriesAgain ==
  /\ step = "returned"
  /\ response.fn = "buildCategorySeries"
  /\ step' = "repeated"
  /\ response' = [fn |-> "buildCategorySeries",
                   result |-> buildCategorySeriesAgain(totals, response.result),
                   first |-> response.result]
  /\ totals' = RowsAfter("buildCategorySeries", totals)
  /\ UNCHANGED <<seriesArg, artifactFile, transactions, imports>>

CallBuildHistory == Returns("buildHistory", buildHistory(totals))

CallFallbackForecast == Returns("fallbackForecast", fallbackForecast(totals))

CallPredictWithPretrained ==
  Returns("predictWithPretrained",
          predictWithPretrained(seriesArg, loadPretrainedArtifact(artifactFile)))

CallForecastPerCategory ==
  Returns("forecastPerCategory",
          forecastPerCategory(seriesArg, loadPretrainedArtifact(artifactFile)))

CallComputeSafeToSpend ==
  Returns("computeSafeToSpend",
          computeSafeToSpend(forecastPerCategory(seriesArg, loadPretrainedArtifact(artifactFile)),
                             seriesArg))

NextEngine ==
  \/ CallBuildCategorySeries
  \/ CallBuildCategorySeriesAgain
  \/ CallBuildHistory
  \/ CallFallbackForecast
  \/ CallPredictWithPretrained
  \/ CallForecastPerCategory
  \/ CallComputeSafeToSpend

SpecEngine == InitEngine /\ [][NextEngine]_vars

-----------------------------------------------------------------------------
(* IEEE 754 binary64 arithmetic, for holtLinearPredict as the JavaScript    *)
(* engine computes it.  A natural number of any size is its sequence of     *)
(* bits, least significant first, without leading zeros (0 is <<>>).  A     *)
(* double is [sign, m, e], standing for sign * m * 2^e with m odd, or Zero. *)
(* The numbers of the model stay far from the subnormal and the overflow    *)
(* range, and -0 is not told apart from 0.                                  *)

RECURSIVE BitsOf(_)
BitsOf(n) == IF n = 0 THEN <<>> ELSE <<n % 2>> \o BitsOf(n \div 2)

BitAt(x, i) == IF i <= Len(x) THEN x[i] ELSE 0

\* x without its leading zeros
Trim(x) ==
  IF \A i \in 1..Len(x) : x[i] = 0 THEN <<>>
  ELSE SubSeq(x, 1, CHOOSE i \in 1..Len(x) : x[i] = 1 /\ \A j \in (i + 1)..Len(x) : x[j] = 0)

\* Sums and products are computed on limbs of LimbBits bits, so that every
\* intermediate value fits the integers of the checker.
LimbBits == 14
LimbBase == 16384
Pow2 == <<1, 2, 4, 8, 16, 32, 64, 128, 256, 512, 1024, 2048, 4096, 8192>>

RECURSIVE LimbAt(_, _, _)
\* the value of bits t .. LimbBits-1 of limb j of x (limbs and bits from 0)
LimbAt(x, j, t) ==
  IF t >= LimbBits THEN 0
  ELSE BitAt(x, LimbBits * j + t + 1) * Pow2[t + 1] + LimbAt(x, j, t + 1)

LimbsOf(x) ==
  SubSeq([j \in 1..((Len(x) + LimbBits - 1) \div LimbBits) |-> LimbAt(x, j - 1, 0)],
         1, (Len(x) + LimbBits - 1) \div LimbBits)

BitsOfLimbs(l) ==
  Trim(SubSeq([i \in 1..(LimbBits * Len(l)) |->
                 (l[((i - 1) \div LimbBits) + 1] \div Pow2[((i - 1) % LimbBits) + 1]) % 2],
              1, LimbBits * Len(l)))

LimbOf(l, j) == IF j >= 1 /\ j <= Len(l) THEN l[j] ELSE 0

RECURSIVE Carry(_, _, _)
\* the limbs of the number whose limb j holds cols[j], any size, plus carry
Carry(cols, j, carry) ==
  IF j > Len(cols) THEN (IF carry = 0 THEN <<>> ELSE <<carry>>)
  ELSE LET t == cols[j] + carry
       IN  <<t % LimbBase>> \o Carry(cols, j + 1, t \div LimbBase)

BigAdd(x, y) ==
  LET a == LimbsOf(x)
      b == LimbsOf(y)
      n == IF Len(a) < Len(b) THEN Len(b) ELSE Len(a)
  IN  BitsOfLimbs(Carry(SubSeq([j \in 1..n |-> LimbOf(a, j) + LimbOf(b, j)], 1, n), 1, 0))

\* x - y for x >= y
BigSub(x, y) ==
  LET a == LimbsOf(x)
      b == LimbsOf(y)
      n == Len(a)
  IN  BitsOfLimbs(Carry(SubSeq([j \in 1..n |-> LimbOf(a, j) - LimbOf(b, j)], 1, n), 1, 0))

BigLess(x, y) ==
  IF Len(x) # Len(y) THEN Len(x) < Len(y)
  ELSE \E i \in 1..Len(x) : x[i] < y[i] /\ \A j \in (i + 1)..Len(x) : x[j] = y[j]

ShiftLeft(x, k) == IF x = <<>> THEN <<>> ELSE [i \in 1..k |-> 0] \o x

RECURSIVE Column(_, _, _, _)
\* the sum of a[i] * b[k + 1 - i] over i = i .. Len(a)
Column(a, b, k, i) ==
  IF i > Len(a) THEN 0 ELSE a[i] * LimbOf(b, k + 1 - i) + Column(a, b, k, i + 1)

\* x * y for x and y of at most 56 bits (four limbs)
BigMul(x, y) ==
  LET a == LimbsOf(x)
      b == LimbsOf(y)
      n == Len(a) + Len(b)
  IN  BitsOfLimbs(Carry(SubSeq([k \in 1..n |-> Column(a, b, k, 1)], 1, n), 1, 0))

Zero64 == [sign |-> 1, m |-> <<>>, e |-> 0]

\* sign * m * 2^e with the factors of two of m moved into the exponent
Canon(sign, m, e) ==
  IF m = <<>> THEN Zero64
  ELSE LET k == (CHOOSE i \in 1..Len(m) : m[i] = 1 /\ \A j \in 1..(i - 1) : m[j] = 0) - 1
       IN  [sign |-> sign, m |-> SubSeq(m, k + 1, Len(m)), e |-> e + k]

\* the double nearest to sign * m * 2^e, ties to the even significand
\* (53 bits of significand)
RoundNearestEven(sign, m, e) ==
  IF Len(m) <= 53 THEN Canon(sign, m, e)
  ELSE LET k == Len(m) - 53
           high == SubSeq(m, k + 1, Len(m))
           sticky == \E i \in 1..(k - 1) : m[i] = 1
           up == m[k] = 1 /\ (sticky \/ high[1] = 1)
       IN  Canon(sign, IF up THEN BigAdd(high, <<1>>) ELSE high, e + k)

\* x + y without rounding, as sign, m and e
ExactAdd(x, y) ==
  LET e == IF x.e < y.e THEN x.e ELSE y.e
      mx == ShiftLeft(x.m, x.e - e)
      my == ShiftLeft(y.m, y.e - e)
  IN  IF x.sign = y.sign THEN [sign |-> x.sign, m |-> BigAdd(mx, my), e |-> e]
      ELSE IF BigLess(mx, my) THEN [sign |-> y.sign, m |-> BigSub(my, mx), e |-> e]
      ELSE [sign |-> x.sign, m |-> BigSub(mx, my), e |-> e]

FNeg(x) == IF x.m = <<>> THEN x ELSE [x EXCEPT !.sign = -x.sign]

\* the JavaScript operators +, - and * on doubles
FAdd(x, y) == LET t == ExactAdd(x, y) IN RoundNearestEven(t.sign, t.m, t.e)
FSub(x, y) == FAdd(x, FNeg(y))
FMul(x, y) == RoundNearestEven(x.sign * y.sign, BigMul(x.m, y.m), x.e + y.e)

\* the double of an integer
F64(n) == Canon(IF n < 0 THEN -1 ELSE 1, BitsOf(Abs(n)), 0)

\* The significand 0x13333333333333 shared by the doubles nearest to 0.6
\* and 0.3.
Significand13333 ==
  <<1,1,0,0>> \o <<1,1,0,0>> \o <<1,1,0,0>> \o <<1,1,0,0>> \o <<1,1,0,0>> \o
  <<1,1,0,0>> \o <<1,1,0,0>> \o <<1,1,0,0>> \o <<1,1,0,0>> \o <<1,1,0,0>> \o
  <<1,1,0,0>> \o <<1,1,0,0>> \o <<1,1,0,0>> \o <<1>>

\* alpha = 0.6 and beta = 0.3 as doubles
HOLT_ALPHA_64 == [sign |-> 1, m |-> Significand13333, e |-> -53]
HOLT_BETA_64 == [sign |-> 1, m |-> Significand13333, e |-> -54]

\* holtLinearPredict without the update loop
holtLinearPredict64NoUpdate(series) ==
  LET n == Len(series)
  IN  IF n = 0 THEN F64(0)
      ELSE IF n = 1 THEN F64(series[1].amount)
      ELSE FAdd(F64(series[1].amount),
                FSub(F64(series[2].amount), F64(series[1].amount)))

\* the loop body of holtLinearPredict on doubles
RECURSIVE HoltLoop64(_, _, _, _)
HoltLoop64(series, k, level, trend) ==
  IF k > Len(series) THEN <<level, trend>>
  ELSE LET y == F64(series[k].amount)
           newLevel == FAdd(FMul(HOLT_ALPHA_64, y),
                            FMul(FSub(F64(1), HOLT_ALPHA_64), FAdd(level, trend)))
           newTrend == FAdd(FMul(HOLT_BETA_64, FSub(newLevel, level)),
                            FMul(FSub(F64(1), HOLT_BETA_64), trend))
       IN  HoltLoop64(series, k + 1, newLevel, newTrend)

\* holtLinearPredict on doubles
holtLinearPredict64(series) ==
  LET n == Len(series)
  IN  IF n = 0 THEN F64(0)
      ELSE IF n = 1 THEN F64(series[1].amount)
      ELSE LET lt == HoltLoop64(series, 2, F64(series[1].amount),
                                FSub(F64(series[2].amount), F64(series[1].amount)))
               nextT == series[n].index + 1
           IN  FAdd(lt[1], FMul(lt[2], F64(nextT - series[n].index)))

\* holtLinearPredict called on the points of one series: at most
\* MaxHoltPoints points of consecutive months, amounts from HoltAmounts.
HoltAmounts == {-50, -27, -5, 0, 10, 100, 120}

RECURSIVE HoltSeries(_)
HoltSeries(n) ==
  IF n = 0 THEN {<<>>}
  ELSE LET shorter == HoltSeries(n - 1)
       IN  shorter \cup {Append(t, PointOf(n - 1, a)) :
                           t \in {u \in shorter : Len(u) = n - 1}, a \in HoltAmounts}

InitHolt ==
  /\ totals = <<>>
  /\ seriesArg \in {<<[category |-> "Dining", months |-> m]>> : m \in HoltSeries(MaxHoltPoints)}
  /\ artifactFile = MissingFile
  /\ step = "ready"
  /\ response = Null
  /\ transactions = <<>>
  /\ imports = <<>>

\* holtLinearPredict(s.months): result is the value in exact arithmetic,
\* result64 the double the engine computes
CallHoltLinearPredict ==
  /\ step = "ready"
  /\ step' = "returned"
  /\ response' = [fn |-> "holtLinearPredict",
                   result |-> holtLinearPredict(seriesArg[1].months),
                   result64 |-> holtLinearPredict64(seriesArg[1].months)]
  /\ UNCHANGED <<totals, seriesArg, artifactFile, transactions, imports>>

NextHolt == CallHoltLinearPredict

SpecHolt == InitHolt /\ [][NextHolt]_vars

-----------------------------------------------------------------------------
(* index.ts: POST /import.  transactions is the Transaction table, in the   *)
(* order the rows were inserted; imports[r] is the request r in flight.     *)
(* An await hands control to the other requests, so a request advances      *)
(* from one database call to the next in one step.                          *)

\* concurrent POST /import requests
MaxImports == 2
\* records of one CSV file
MaxCsvRows == 2

\* the records csv-parse yields (columns: true): one purchase written with
\* two spellings of the same amount, a salary, and a record without a date
CsvRecords ==
  {[date |-> "2024-11-03", amount |-> "5", description |-> "STARBUCKS", merchant |-> ""],
   [date |-> "2024-11-03", amount |-> "5.0", description |-> "STARBUCKS", merchant |-> ""],
   [date |-> "2024-11-05", amount |-> "-1,000", description |-> "PAYROLL", merchant |-> ""],
   [date |-> "", amount |-> "5", description |-> "STARBUCKS", merchant |-> ""]}

\* every file of at most n records
RECURSIVE CsvFiles(_)
CsvFiles(n) ==
  IF n = 0 THEN {<<>>}
  ELSE LET shorter == CsvFiles(n - 1)
       IN  shorter \cup {Append(f, r) : f \in {g \in shorter : Len(g) = n - 1}, r \in CsvRecords}

\* String(r.amount).replace(/,/g, '')
StripCommas(a) == IF a = "-1,000" THEN "-1000" ELSE a

\* Number(amtStr)
NumberOf(amtStr) ==
  CASE amtStr = "5" -> 5
    [] amtStr = "5.0" -> 5
    [] amtStr = "-1000" -> -1000

\* Number.isNaN(amt) || !dateStr || Number.isNaN(ts.getTime()): the amounts
\* and the dates of the records above are valid where they are not empty
InvalidRow(r) == r.date = ""

\* matched ? rules[matched] : (amt < 0 ? 'Income' : 'Uncategorized')
CategoryOf(r) ==
  IF r.description = "STARBUCKS" THEN "Dining"
  ELSE IF NumberOf(StripCommas(r.amount)) < 0 THEN "Income" ELSE "Uncategorized"

\* Buffer.from(`${dateStr}|${amt}|${desc}|${merchant}`).toString('base64'):
\* base64 is one-to-one, so the id is the text it encodes, given by its
\* four fields; amt is the number, not the text of the CSV cell
ExternalIdOf(r) == <<r.date, NumberOf(StripCommas(r.amount)), r.description, r.merchant>>

\* the element of txns made from record r
TxnOf(r, batchId) ==
  [amount |-> NumberOf(StripCommas(r.amount)), description |-> r.description,
   merchant |-> r.merchant, category |-> CategoryOf(r), batchId |-> batchId,
   externalId |-> ExternalIdOf(r)]

\* txns.filter(t => !existingIds.has(t.externalId))
NewTxns(txns, existingIds) ==
  LET fresh(t) == t.externalId \notin existingIds IN SelectSeq(txns, fresh)

\* newTxns.slice(i, i + 500)
ChunkSize == 500
Chunk(newTxns, i) ==
  SubSeq(newTxns, i + 1, IF i + ChunkSize < Len(newTxns) THEN i + ChunkSize ELSE Len(newTxns))

IdleImport ==
  [pc |-> "idle", records |-> <<>>, newTxns |-> <<>>, i |-> 0, inserted |-> 0,
   reply |-> [code |-> 0, total |-> 0, inserted |-> 0, skipped |-> 0]]

InitImport ==
  /\ totals = <<>>
  /\ seriesArg = <<>>
  /\ artifactFile = MissingFile
  /\ step = "ready"
  /\ response = Null
  /\ transactions = <<>>
  /\ imports = [r \in 1..MaxImports |-> IdleImport]

\* the request arrives with a file that has records: the parts are read, the
\* account is upserted and the import batch created
PostImport(r) ==
  /\ imports[r].pc = "idle"
  /\ \E f \in CsvFiles(MaxCsvRows) \ {<<>>} :
       imports' = [imports EXCEPT ![r] = [@ EXCEPT !.pc = "batch", !.records = f]]
  /\ UNCHANGED <<totals, seriesArg, artifactFile, step, response, transactions>>

\* if (!records.length): 400
PostImportNoRecords(r) ==
  /\ imports[r].pc = "idle"
  /\ imports' = [imports EXCEPT ![r] =
                   [@ EXCEPT !.pc = "done",
                             !.reply = [code |-> 400, total |-> 0, inserted |-> 0,
                                        skipped |-> 0]]]
  /\ UNCHANGED <<totals, seriesArg, artifactFile, step, response, transactions>>

\* records.map throws on an invalid row: the handler ends with an error
ImportInvalidRow(r) ==
  /\ imports[r].pc = "batch"
  /\ \E k \in 1..Len(imports[r].records) : InvalidRow(imports[r].records[k])
  /\ imports' = [imports EXCEPT ![r] =
                   [@ EXCEPT !.pc = "failed",
                             !.reply = [code |-> 500, total |-> 0, inserted |-> 0,
                                        skipped |-> 0]]]
  /\ UNCHANGED <<totals, seriesArg, artifactFile, step, response, transactions>>

\* txns is built and findMany reads the table: existingIds and newTxns
ImportLookup(r) ==
  /\ imports[r].pc = "batch"
  /\ \A k \in 1..Len(imports[r].records) : ~InvalidRow(imports[r].records[k])
  /\ LET txns == [k \in 1..Len(imports[r].records) |-> TxnOf(imports[r].records[k], r)]
         wanted == {txns[k].externalId : k \in 1..Len(txns)}
         existingIds == {transactions[k].externalId : k \in 1..Len(transactions)}
                          \cap wanted
     IN  imports' = [imports EXCEPT ![r] =
                       [@ EXCEPT !.pc = "found", !.newTxns = NewTxns(txns, existingIds)]]
  /\ UNCHANGED <<totals, seriesArg, artifactFile, step, response, transactions>>

\* one turn of the insert loop: createMany of the next chunk
ImportInsertChunk(r) ==
  /\ imports[r].pc = "found"
  /\ imports[r].i < Len(imports[r].newTxns)
  /\ LET data == Chunk(imports[r].newTxns, imports[r].i)
     IN  /\ transactions' = transactions \o data
         /\ imports' = [imports EXCEPT ![r] =
                          [@ EXCEPT !.i = @ + ChunkSize, !.inserted = @ + Len(data)]]
  /\ UNCHANGED <<totals, seriesArg, artifactFile, step, response>>

\* the loop is over: the batch count is updated and the reply sent
ImportReply(r) ==
  /\ imports[r].pc = "found"
  /\ imports[r].i >= Len(imports[r].newTxns)
  /\ imports' = [imports EXCEPT ![r] =
                   [@ EXCEPT !.pc = "done",
                             !.reply = [code |-> 200, total |-> Len(imports[r].records),
                                        inserted |-> imports[r].inserted,
                                        skipped |-> Len(imports[r].records)
                                                      - imports[r].inserted]]]
  /\ UNCHANGED <<totals, seriesArg, artifactFile, step, response, transactions>>

NextImport ==
  \E r \in 1..MaxImports :
    \/ PostImport(r)
    \/ PostImportNoRecords(r)
    \/ ImportInvalidRow(r)
    \/ ImportLookup(r)
    \/ ImportInsertChunk(r)
    \/ ImportReply(r)

SpecImport == InitImport /\ [][NextImport]_vars

-----------------------------------------------------------------------------
(* Vocabulary of the properties *)

Responded == step = "responded"
\* the handler went past the empty check and replied with a forecast
Forecasted == Responded /\ totals # <<>> /\ response.error = ""

ObservedMonths == {totals[i].monthKey : i \in 1..Len(totals)}
ArtifactLoaded == artifactFile.exists

SafeBudgets == [i \in 1..Len(response.safeToSpend.perCategory) |->
                  response.safeToSpend.perCategory[i].safeBudget]

\* the totals with every income amount (any capitalisation) replaced by
\* another amount
ReplaceIncome(rows) ==
  [i \in 1..Len(rows) |->
     IF ToLowerCase(rows[i].category) = "income"
     THEN [rows[i] EXCEPT !.totalAmount = 10 - rows[i].totalAmount]
     ELSE rows[i]]

-----------------------------------------------------------------------------
(* C1 *)

\* C1 as stated: whenever the /forecast pipeline reports a non-null
\* avgMonthlyIncome, the safeBudget values add up to safeTotalBudget.
C1_AsStated ==
  (Forecasted /\ response.safeToSpend.avgMonthlyIncome # Null)
    => RSum(SafeBudgets) = response.safeToSpend.safeTotalBudget

\* C1 (amended): whenever the /forecast pipeline reports a non-null
\* avgMonthlyIncome and safeToSpend.perCategory has at least one entry, the
\* safeBudget values add up to safeTotalBudget.
C1_BudgetsSumToTotal ==
  (Forecasted /\ response.safeToSpend.avgMonthlyIncome # Null
     /\ Len(response.safeToSpend.perCategory) > 0)
    => RSum(SafeBudgets) = response.safeToSpend.safeTotalBudget

\* a reply that splits a budget between two categories with positive shares
\* while a third has a negative prediction
C1_Witness ==
  /\ Forecasted
  /\ response.safeToSpend.avgMonthlyIncome # Null
  /\ \E i, j \in 1..Len(SafeBudgets) :
       i # j /\ RLess(R(0), SafeBudgets[i]) /\ RLess(R(0), SafeBudgets[j])
  /\ \E i \in 1..Len(response.forecast.perCategory) :
       RLess(response.forecast.perCategory[i].predicted, R(0))

-----------------------------------------------------------------------------
(* C2 *)

\* C2: no forecast entry is named 'income' in any capitalisation, and
\* neither totalPredicted nor any month's totalActual changes when the
\* income amounts of the input are replaced by other amounts.
C2_IncomeExcluded ==
  Forecasted =>
    /\ \A i \in 1..Len(response.forecast.perCategory) :
         ToLowerCase(response.forecast.perCategory[i].category) # "income"
    /\ (\E i \in 1..Len(totals) : ToLowerCase(totals[i].category) = "income") =>
         LET other == ForecastHandler(ReplaceIncome(totals), artifactFile)
         IN  /\ response.forecast.totalPredicted = other.forecast.totalPredicted
             /\ Len(response.history) = Len(other.history)
             /\ \A i \in 1..Len(response.history) :
                  response.history[i].totalActual = other.history[i].totalActual

\* a pretrained forecast over totals with positive 'Income' and 'income' rows
C2_Witness ==
  /\ Forecasted
  /\ \E i, j \in 1..Len(totals) :
       /\ totals[i].category = "Income" /\ totals[i].totalAmount > 0
       /\ totals[j].category = "income" /\ totals[j].totalAmount > 0
  /\ \E i \in 1..Len(response.applied) : response.applied[i] = "predictWithPretrained"
  /\ Len(response.forecast.perCategory) > 1
  /\ \E i \in 1..Len(response.history) :
       \E j \in 1..Len(response.history[i].perCategory) :
          response.history[i].perCategory[j].category = "Income"

-----------------------------------------------------------------------------
(* C3 *)

\* C3: with at least two distinct months and no artifact, the forecast is
\* returned (nothing is thrown) and totalPredicted is not negative.
C3_HoltTotalNonNegative ==
  (Responded /\ Cardinality(ObservedMonths) >= 2 /\ ~ArtifactLoaded)
    => /\ response.error = ""
       /\ response.forecast # Null
       /\ ~RLess(response.forecast.totalPredicted, R(0))

\* a Holt forecast with a negative prediction
C3_Witness ==
  /\ Responded /\ Cardinality(ObservedMonths) >= 2 /\ ~ArtifactLoaded
  /\ \E i \in 1..Len(response.forecast.perCategory) :
       RLess(response.forecast.perCategory[i].predicted, R(0))

-----------------------------------------------------------------------------
(* C4 *)

ObservedSpending ==
  {totals[i].category : i \in {j \in 1..Len(totals) : ToLowerCase(totals[j].category) # "income"}}

\* the amount of the last row of category c
LatestAmount(c) ==
  LET at == {i \in 1..Len(totals) : totals[i].category = c}
  IN  totals[CHOOSE i \in at : \A j \in at : j <= i].totalAmount

\* C4: with fewer than two distinct months the forecast has exactly one
\* entry per observed category other than income, its predicted value is
\* the category's latest amount, and neither forecastPerCategory,
\* predictWithPretrained nor holtLinearPredict is applied, with or
\* without an artifact.
C4_NaivePersistence ==
  (Responded /\ totals # <<>> /\ Cardinality(ObservedMonths) < 2)
    => /\ response.error = ""
       /\ Len(response.forecast.perCategory) = Cardinality(ObservedSpending)
       /\ {response.forecast.perCategory[i].category :
             i \in 1..Len(response.forecast.perCategory)} = ObservedSpending
       /\ \A i \in 1..Len(response.forecast.perCategory) :
            response.forecast.perCategory[i].predicted
              = R(LatestAmount(response.forecast.perCategory[i].category))
       /\ \A i \in 1..Len(response.applied) :
            response.applied[i] \notin
              {"forecastPerCategory", "predictWithPretrained", "holtLinearPredict"}

\* a single-month reply for two spending categories while an artifact with
\* a default model is on disk
C4_Witness ==
  /\ Responded /\ Cardinality(ObservedMonths) = 1
  /\ artifactFile = FileOf(WithDefaultArtifact)
  /\ Len(response.forecast.perCategory) = 2

-----------------------------------------------------------------------------
(* C5 *)

\* C5: with at least two distinct months, perCategory is the list
\* predictWithPretrained returns when an artifact is loaded and that list is
\* not empty; otherwise it has one entry per series other than income, in
\* series order, holding holtLinearPredict of that series.
C5_Selection ==
  (Forecasted /\ Cardinality(ObservedMonths) >= 2)
    => LET series == buildCategorySeries(totals)
           preds == predictWithPretrained(series, loadPretrainedArtifact(artifactFile))
           spending(x) == ToLowerCase(x.category) # "income"
           nonIncome == SelectSeq(series, spending)
           perCategory == response.forecast.perCategory
       IN  IF ArtifactLoaded /\ preds.predictions # <<>>
           THEN perCategory = preds.predictions
           ELSE /\ Len(perCategory) = Len(nonIncome)
                /\ \A i \in 1..Len(nonIncome) :
                     perCategory[i] = [category |-> nonIncome[i].category,
                                       predicted |-> holtLinearPredict(nonIncome[i].months)]

\* a loaded artifact without any model, so that the prediction list is
\* empty, over two months of a spending category
C5_Witness ==
  /\ Forecasted /\ Cardinality(ObservedMonths) >= 2
  /\ artifactFile = FileOf(NoModelArtifact)
  /\ \E i \in 1..Len(response.forecast.perCategory) :
       response.forecast.perCategory[i].predicted \notin {R(0), R(10), R(-5)}

-----------------------------------------------------------------------------
(* C6 *)

\* C6: with an artifact loaded and at least two months, a category with
\* neither a specific nor a default model is absent from the pretrained
\* predictions, and when some other category is covered it is absent from
\* forecast.perCategory and from safeToSpend.perCategory.
C6_PartialCoverage ==
  (Forecasted /\ Cardinality(ObservedMonths) >= 2 /\ ArtifactLoaded)
    => LET art == artifactFile.json
           series == buildCategorySeries(totals)
           spendingCats == {series[i].category :
                              i \in {j \in 1..Len(series) :
                                       ToLowerCase(series[j].category) # "income"}}
           uncovered(c) == c \notin DOMAIN art.categories[1] /\ art.default = <<>>
           preds == predictWithPretrained(series, art).predictions
           names(list) == {list[i].category : i \in 1..Len(list)}
       IN  \A c \in spendingCats :
             uncovered(c) =>
               /\ c \notin names(preds)
               /\ (\E d \in spendingCats : ~uncovered(d)) =>
                    /\ c \notin names(response.forecast.perCategory)
                    /\ c \notin names(response.safeToSpend.perCategory)

\* Dining has a model, Gym has rows and no model: the forecast holds Dining only
C6_Witness ==
  /\ Forecasted /\ Cardinality(ObservedMonths) >= 2
  /\ artifactFile = FileOf(DiningOnlyArtifact)
  /\ \E i \in 1..Len(totals) : totals[i].category = "Gym"
  /\ \E i \in 1..Len(totals) : totals[i].category = "Dining"
  /\ Len(response.forecast.perCategory) = 1
  /\ response.forecast.perCategory[1].category = "Dining"

-----------------------------------------------------------------------------
(* C7 *)

\* the number of months from year 0 to the month a key names
MonthNumber(key) ==
  12 * (1000 * key[1] + 100 * key[2] + 10 * key[3] + key[4]) + (10 * key[5] + key[6]) - 1

\* C7: on both paths nextMonthKey is a six-digit key with a month from 01
\* to 12, names the month after the latest observed month of any category,
\* and is greater than every observed key as a string.
C7_NextMonthKey ==
  Forecasted =>
    LET next == response.forecast.nextMonthKey
    IN  /\ Len(next) = 6
        /\ \A i \in 1..6 : next[i] \in 0..9
        /\ (10 * next[5] + next[6]) \in 1..12
        /\ \E latest \in ObservedMonths :
             /\ \A m \in ObservedMonths : MonthNumber(m) <= MonthNumber(latest)
             /\ MonthNumber(next) = MonthNumber(latest) + 1
        /\ \A m \in ObservedMonths : m # next /\ LexLe(m, next)

\* the latest month is a December held by an Income row only, on the
\* forecastPerCategory path: the next key is January of the next year
C7_Witness ==
  /\ Forecasted /\ Cardinality(ObservedMonths) >= 2
  /\ Dec2024 \in ObservedMonths /\ Jan2025 \notin ObservedMonths
  /\ \A i \in 1..Len(totals) : totals[i].monthKey = Dec2024 => totals[i].category = "Income"
  /\ response.forecast.nextMonthKey = <<2, 0, 2, 5, 0, 1>>

-----------------------------------------------------------------------------
(* C8 *)

\* C8: without totals the reply is the no-history reply (empty history, null
\* forecast, null safeToSpend, a note) and no engine function is applied; a
\* forecast is returned only when there is at least one total.
C8_NoHistory ==
  Responded =>
    /\ totals = <<>> =>
         /\ response.history = <<>>
         /\ response.forecast = Null
         /\ response.safeToSpend = Null
         /\ response.note # ""
         /\ response.applied = <<>>
    /\ response.forecast # Null => Len(totals) >= 1

\* the reply to a request without totals
C8_Witness == Responded /\ totals = <<>> /\ response.forecast = Null

-----------------------------------------------------------------------------
(* C9 *)

\* C9: safeToSpend.perCategory has the categories of forecast.perCategory in
\* the same order with the same predicted values; without any 'Income' row
\* avgMonthlyIncome, safeTotalBudget and every safeBudget are null.
C9_NullIncome ==
  Forecasted =>
    LET f == response.forecast.perCategory
        b == response.safeToSpend.perCategory
    IN  /\ Len(b) = Len(f)
        /\ \A i \in 1..Len(f) :
             b[i].category = f[i].category /\ b[i].predicted = f[i].predicted
        /\ (\A i \in 1..Len(totals) : totals[i].category # "Income") =>
             /\ response.safeToSpend.avgMonthlyIncome = Null
             /\ response.safeToSpend.safeTotalBudget = Null
             /\ \A i \in 1..Len(b) : b[i].safeBudget = Null

\* a reply without any income row, with a non-zero prediction passed through
C9_Witness ==
  /\ Forecasted
  /\ \A i \in 1..Len(totals) : ToLowerCase(totals[i].category) # "income"
  /\ Len(response.safeToSpend.perCategory) >= 2
  /\ \E i \in 1..Len(response.safeToSpend.perCategory) :
       /\ response.safeToSpend.perCategory[i].safeBudget = Null
       /\ RLess(response.safeToSpend.perCategory[i].predicted, R(0))

-----------------------------------------------------------------------------
(* C10 *)

IncomeRows == {i \in 1..Len(totals) : totals[i].category = "Income"}

\* the income rows of the AVG_INCOME_MONTHS latest income months
RecentIncomeRows ==
  {i \in IncomeRows :
     Cardinality({j \in IncomeRows : totals[j].monthKey # totals[i].monthKey
                                      /\ LexLe(totals[i].monthKey, totals[j].monthKey)})
       < AVG_INCOME_MONTHS}

RECURSIVE SumAbsAmounts(_)
SumAbsAmounts(S) ==
  IF S = {} THEN 0
  ELSE LET i == CHOOSE x \in S : TRUE
       IN  Abs(totals[i].totalAmount) + SumAbsAmounts(S \ {i})

\* C10 as stated: with k >= 1 income points avgMonthlyIncome is the mean of
\* the absolute amounts of the last min(3, k) points and safeTotalBudget is
\* that mean times (1 - 0.2); avgMonthlyIncome is null exactly when there
\* is no income point.
C10_AsStated ==
  Forecasted =>
    LET mean == Norm(SumAbsAmounts(RecentIncomeRows), Cardinality(RecentIncomeRows))
    IN  /\ IncomeRows # {} =>
             /\ response.safeToSpend.avgMonthlyIncome = mean
             /\ response.safeToSpend.safeTotalBudget = RMul(mean, <<4, 5>>)
        /\ (response.safeToSpend.avgMonthlyIncome = Null) <=> (IncomeRows = {})
-----------------------------------------------------------------------------
(* C11 *)

\* C11 as stated: whatever is wrong with the artifact document (missing,
\* unreadable, not JSON, JSON without the expected structure), loading it
\* yields an absent artifact and the /forecast computation that follows
\* replies without raising, its forecast made by a fallback predictor (Holt
\* or naive persistence).
C11_AsStated ==
  (Responded /\ artifactFile \in FailingFiles) =>
    /\ NoArtifact(loadPretrainedArtifact(artifactFile))
    /\ response.error = ""
    /\ totals # <<>> => ~(\E i \in 1..Len(response.applied) :
                             response.applied[i] = "predictWithPretrained"
                               /\ i + 1 <= Len(response.applied)
                               /\ response.applied[i + 1] = "computeSafeToSpend")
-----------------------------------------------------------------------------
(* C12 *)

\* buildCategorySeries has returned from its first call on totals
BuiltSeries == step = "returned" /\ response.fn = "buildCategorySeries"

CategoriesOf(seriesList) == {seriesList[i].category : i \in 1..Len(seriesList)}

\* C12: for any input list (the empty one included) the categories
\* buildCategorySeries returns are exactly the seven canonical names
\* together with the category names of the input, each once, and a category
\* without rows has an empty point list.
C12_CanonicalAndObserved ==
  BuiltSeries =>
    LET out == response.result
        observed == {totals[i].category : i \in 1..Len(totals)}
    IN  /\ CategoriesOf(out) =
             {"Dining", "Groceries", "Subscriptions", "Transport", "Uncategorized",
              "Other", "Income"} \cup observed
        /\ \A i, j \in 1..Len(out) : out[i].category = out[j].category => i = j
        /\ \A i \in 1..Len(out) :
             out[i].category \notin observed => out[i].months = <<>>

\* a call on rows of a canonical and of another category, in an order that
\* is not chronological
C12_Witness ==
  /\ BuiltSeries
  /\ Len(response.result) = 8
  /\ \E i, j \in 1..Len(totals) :
       /\ i < j
       /\ totals[i].category = "income" /\ totals[j].category = "Dining"
       /\ totals[i].monthKey = Jan2025 /\ totals[j].monthKey = Nov2024
-----------------------------------------------------------------------------
(* C13 *)

-----------------------------------------------------------------------------
(* C14 *)

\* C14: no engine function changes the lists of its caller.  Across every
\* call of buildCategorySeries, buildHistory, fallbackForecast,
\* forecastPerCategory, predictWithPretrained and computeSafeToSpend the rows
\* list, the series list and the months list of each series keep the same
\* elements in the same order.
C14_NoMutation ==
  [][(step = "ready" \/ step = "returned") =>
       /\ Len(totals') = Len(totals)
       /\ \A i \in 1..Len(totals) : totals'[i] = totals[i]
       /\ Len(seriesArg') = Len(seriesArg)
       /\ \A i \in 1..Len(seriesArg) :
            /\ seriesArg'[i].category = seriesArg[i].category
            /\ Len(seriesArg'[i].months) = Len(seriesArg[i].months)
            /\ \A k \in 1..Len(seriesArg[i].months) :
                 seriesArg'[i].months[k] = seriesArg[i].months[k]]_vars

\* a call has returned whose rows list is not in chronological order, or
\* whose series has a model and points that are not in index order
C14_Witness ==
  /\ step = "returned"
  /\ \/ /\ response.fn \in {"buildCategorySeries", "buildHistory", "fallbackForecast"}
        /\ \E i \in 1..(Len(totals) - 1) :
             totals[i].monthKey # totals[i + 1].monthKey
               /\ LexLe(totals[i + 1].monthKey, totals[i].monthKey)
     \/ /\ response.fn \in {"predictWithPretrained", "forecastPerCategory", "computeSafeToSpend"}
        /\ artifactFile = FileOf(WithDefaultArtifact)
        /\ \E i \in 1..Len(seriesArg) :
             /\ seriesArg[i].category = "Dining"
             /\ Len(seriesArg[i].months) = 2
             /\ seriesArg[i].months[1].index > seriesArg[i].months[2].index
-----------------------------------------------------------------------------
(* C15 *)

\* the numbers of a reply: predictions, totals, actuals, budgets
ResponseNumbers ==
  {response.forecast.perCategory[i].predicted : i \in 1..Len(response.forecast.perCategory)}
  \cup {response.forecast.totalPredicted, response.safeToSpend.targetSavingsRate}
  \cup ({response.safeToSpend.avgMonthlyIncome, response.safeToSpend.safeTotalBudget}
          \ {Null})
  \cup ({response.safeToSpend.perCategory[i].safeBudget :
            i \in 1..Len(response.safeToSpend.perCategory)} \ {Null})
  \cup {response.safeToSpend.perCategory[i].predicted :
            i \in 1..Len(response.safeToSpend.perCategory)}
  \cup UNION {{response.history[i].totalActual} \cup
               {response.history[i].perCategory[k].actual :
                  k \in 1..Len(response.history[i].perCategory)} :
             i \in 1..Len(response.history)}

\* C15: every number of a reply is finite; every division the engine
\* executes (income mean by the number of income points, allocation ratio
\* by the sum of the clipped predictions, equal share by the number of
\* categories) has a non-zero denominator; without income points the
\* average is null, and with a zero sum of clipped predictions every
\* budget is the equal split of safeTotalBudget.
C15_GuardedDivisions ==
  Forecasted =>
    LET seriesList == buildCategorySeries(totals)
        budgets == response.safeToSpend.perCategory
    IN  /\ \A x \in ResponseNumbers : RIsFinite(x)
        /\ \A d \in Denominators(response.forecast, seriesList) : ~RIsZero(d)
        /\ (\A i \in 1..Len(totals) : totals[i].category # "Income")
             => response.safeToSpend.avgMonthlyIncome = Null
        /\ (response.safeToSpend.avgMonthlyIncome # Null
              /\ RIsZero(response.forecast.totalPredicted))
             => \A i \in 1..Len(budgets) :
                  budgets[i].safeBudget =
                    RDiv(response.safeToSpend.safeTotalBudget, R(Len(budgets)))

\* a reply with an income average whose predictions are all negative, the
\* budget split equally between two categories
C15_Witness ==
  /\ Forecasted
  /\ response.safeToSpend.avgMonthlyIncome # Null
  /\ RIsZero(response.forecast.totalPredicted)
  /\ Len(response.safeToSpend.perCategory) = 2
  /\ \A i \in 1..2 : RLess(response.forecast.perCategory[i].predicted, R(0))
  /\ \A i \in 1..2 : RLess(R(0), response.safeToSpend.perCategory[i].safeBudget)
-----------------------------------------------------------------------------
(* C16 *)

\* the reply's forecast was made by holtLinearPredict
HoltForecasted ==
  Forecasted /\ \E i \in 1..Len(response.applied) : response.applied[i] = "holtLinearPredict"

\* C16 as stated: the Holt prediction of a category with at least two
\* points is level + trend * stepsAhead, stepsAhead being the gap between
\* the next calendar slot of the dataset and the last observed index of the
\* category: 1 when the category was observed in the last month of the
\* dataset, k + 1 when its last observation is k months earlier.
C16_AsStated ==
  HoltForecasted =>
    LET kept == SelectSeq(buildCategorySeries(totals), NotIncomeSeries)
        nextSlot == Cardinality(ObservedMonths)
    IN  \A i \in 1..Len(kept) :
          LET months == kept[i].months
              n == Len(months)
              lt == HoltLoop(months, 2, R(months[1].amount),
                             R(months[2].amount - months[1].amount))
              stepsAhead == nextSlot - months[n].index
          IN  n >= 2 =>
                response.forecast.perCategory[i].predicted =
                  RAdd(lt[1], RMul(lt[2], R(stepsAhead)))
-----------------------------------------------------------------------------
(* C17 *)

HoltReturned == step = "returned" /\ response.fn = "holtLinearPredict"
HoltInput == seriesArg[1].months

\* |x - n| for a double x and an integer n, without rounding
AbsDiff64(x, n) ==
  LET d == ExactAdd(x, FNeg(F64(n))) IN [sign |-> 1, m |-> d.m, e |-> d.e]

\* x <= y for x >= 0 and y >= 0
AtMost64(x, y) ==
  LET t == ExactAdd(y, FNeg(x)) IN t.m = <<>> \/ t.sign = 1

\* C17 as stated: with the default constants an empty series predicts 0, a
\* one-point series exactly the amount of its point, and a two-point series
\* with amounts (a, b) exactly 2b - a.
C17_AsStated ==
  HoltReturned =>
    /\ Len(HoltInput) = 0 => response.result64 = F64(0)
    /\ Len(HoltInput) = 1 => response.result64 = F64(HoltInput[1].amount)
    /\ Len(HoltInput) = 2 =>
         response.result64 = F64(2 * HoltInput[2].amount - HoltInput[1].amount)

\* C17 (amended): with the default constants an empty series predicts 0 and
\* a one-point series exactly the amount of its point; a two-point series
\* with amounts (a, b) predicts 2b - a in exact arithmetic, and the double
\* the engine returns is within (|a| + |b|) * 2^-50 of 2b - a; for
\* Scenario A (100, 120) it is exactly 140.
C17_HoltShortSeries ==
  HoltReturned =>
    /\ Len(HoltInput) = 0 => (response.result64 = F64(0) /\ response.result = R(0))
    /\ Len(HoltInput) = 1 =>
         /\ response.result64 = F64(HoltInput[1].amount)
         /\ response.result = R(HoltInput[1].amount)
    /\ Len(HoltInput) = 2 =>
         LET a == HoltInput[1].amount
             b == HoltInput[2].amount
         IN  /\ response.result = R(2 * b - a)
             /\ AtMost64(AbsDiff64(response.result64, 2 * b - a),
                          [sign |-> 1, m |-> BitsOf(Abs(a) + Abs(b)), e |-> -50])
             /\ (a = 100 /\ b = 120) => response.result64 = F64(140)

\* a two-point call whose double differs from 2b - a
C17_Witness ==
  /\ HoltReturned
  /\ Len(HoltInput) = 2
  /\ HoltInput[1].amount = -50
  /\ HoltInput[2].amount = -27
  /\ response.result = R(-4)
  /\ response.result64 # F64(-4)
-----------------------------------------------------------------------------
(* C18 *)

PretrainedReturned == step = "returned" /\ response.fn = "predictWithPretrained"

\* the amount of the (i+1)-th most recent point by index, and of the
\* earliest point when the series has no more than i points
LagAmount(months, i) ==
  LET at(k) == {p \in 1..Len(months) :
                  Cardinality({q \in 1..Len(months) :
                                 months[q].index > months[p].index}) = k}
      earliest == {p \in 1..Len(months) :
                     \A q \in 1..Len(months) : months[p].index <= months[q].index}
  IN  IF i < Len(months) THEN months[CHOOSE p \in at(i) : TRUE].amount
      ELSE months[CHOOSE p \in earliest : TRUE].amount

\* coef[i] * f(i) summed over i = from .. L-1
RECURSIVE LagTerms(_, _, _)
LagTerms(model, months, from) ==
  IF from >= Len(model.lags) THEN R(0)
  ELSE RAdd(RMul(model.lags[from + 1], R(LagAmount(months, from))),
            LagTerms(model, months, from + 1))

\* the model that applies to a category: its own, else the default, else none
ApplicableModel(artifact, category) ==
  IF category \in DOMAIN artifact.categories[1]
  THEN <<artifact.categories[1][category]>>
  ELSE artifact.default

\* the series of the argument that are not Income and have a model
LagForecasted(artifact) ==
  LET applies(s) == ToLowerCase(s.category) # "income"
                      /\ ApplicableModel(artifact, s.category) # <<>>
  IN  SelectSeq(seriesArg, applies)

-----------------------------------------------------------------------------
(* C19 *)

SeriesBuilt == step = "returned" /\ response.fn = "buildCategorySeries"

\* a is lexicographically smaller than b
KeySmaller(a, b) ==
  \/ \E k \in 1..Len(a) :
       /\ k <= Len(b)
       /\ a[k] < b[k]
       /\ \A j \in 1..(k - 1) : a[j] = b[j]
  \/ (Len(a) < Len(b) /\ \A j \in 1..Len(a) : a[j] = b[j])

\* the distinct month keys of the whole input smaller than m
SmallerMonths(m) ==
  {totals[i].monthKey : i \in {j \in 1..Len(totals) : KeySmaller(totals[j].monthKey, m)}}

\* C19: for rows in any order, the index of every point buildCategorySeries
\* returns is the number of distinct month keys of the whole input that are
\* lexicographically smaller than the point's month key; the points of every
\* series are in ascending index order; every row yields exactly one point,
\* in the one series of its category, with the row's totalAmount; and a
\* series has no point for a month its category has no row for.
C19_GlobalIndex ==
  SeriesBuilt =>
    LET result == response.result
        seriesOf(c) == {k \in 1..Len(result) : result[k].category = c}
        rowsLike(c, m, a) ==
          {i \in 1..Len(totals) : /\ totals[i].category = c
                                   /\ totals[i].monthKey = m
                                   /\ totals[i].totalAmount = a}
        pointsLike(k, m, a) ==
          {j \in 1..Len(result[k].months) : /\ result[k].months[j].monthKey = m
                                             /\ result[k].months[j].amount = a}
    IN  /\ \A k \in 1..Len(result) :
             LET months == result[k].months
             IN  /\ \A j \in 1..Len(months) :
                      months[j].index = Cardinality(SmallerMonths(months[j].monthKey))
                 /\ \A i, j \in 1..Len(months) :
                      i < j => months[i].index <= months[j].index
                 /\ \A j \in 1..Len(months) :
                      rowsLike(result[k].category, months[j].monthKey,
                               months[j].amount) # {}
        /\ \A i \in 1..Len(totals) :
             LET r == totals[i]
             IN  /\ Cardinality(seriesOf(r.category)) = 1
                 /\ \A k \in seriesOf(r.category) :
                      Cardinality(pointsLike(k, r.monthKey, r.totalAmount)) =
                        Cardinality(rowsLike(r.category, r.monthKey, r.totalAmount))

\* rows supplied latest month first, with a month no Dining row has in
\* between: Dining gets index 0 and index 2 and no point of index 1
C19_Witness ==
  /\ SeriesBuilt
  /\ totals = <<[monthKey |-> Jan2025, category |-> "Dining", totalAmount |-> 10],
                [monthKey |-> Dec2024, category |-> "income", totalAmount |-> 10],
                [monthKey |-> Nov2024, category |-> "Dining", totalAmount |-> -5]>>
  /\ \E k \in 1..Len(response.result) :
       /\ response.result[k].category = "Dining"
       /\ response.result[k].months =
            <<[monthKey |-> Nov2024, index |-> 0, amount |-> -5],
              [monthKey |-> Jan2025, index |-> 2, amount |-> 10]>>
-----------------------------------------------------------------------------
(* C20 *)

HistoryBuilt == step = "returned" /\ response.fn = "buildHistory"

\* the sum of max(0, totalAmount) over the first n rows of the input that
\* are of month m and whose category is not income in any letter case
RECURSIVE SpendOfMonth(_, _)
SpendOfMonth(m, n) ==
  IF n = 0 THEN 0
  ELSE SpendOfMonth(m, n - 1) +
         (IF /\ totals[n].monthKey = m
             /\ totals[n].category \notin {"income", "Income", "INCOME"}
             /\ totals[n].totalAmount > 0
          THEN totals[n].totalAmount ELSE 0)

\* C20: buildHistory returns exactly one HistoryPoint per distinct month key
\* of the input, in strictly ascending month-key order whatever the order of
\* the rows; every row appears exactly once in the perCategory of its month
\* with actual equal to its totalAmount, unclipped and income included; and
\* totalActual is the sum of max(0, totalAmount) over the rows of the month
\* that are not income (in any letter case), hence not negative.
C20_History ==
  HistoryBuilt =>
    LET history == response.result
        pointsOf(m) == {k \in 1..Len(history) : history[k].monthKey = m}
        rowsLike(r) == {i \in 1..Len(totals) : totals[i] = r}
        rowsOfMonth(m) == {i \in 1..Len(totals) : totals[i].monthKey = m}
        entriesLike(k, r) ==
          {j \in 1..Len(history[k].perCategory) :
             history[k].perCategory[j] =
               [category |-> r.category, actual |-> R(r.totalAmount)]}
    IN  /\ \A i \in 1..Len(totals) : Cardinality(pointsOf(totals[i].monthKey)) = 1
        /\ \A k \in 1..Len(history) :
             /\ rowsOfMonth(history[k].monthKey) # {}
             /\ Len(history[k].perCategory) =
                  Cardinality(rowsOfMonth(history[k].monthKey))
             /\ history[k].totalActual = R(SpendOfMonth(history[k].monthKey, Len(totals)))
             /\ ~RLess(history[k].totalActual, R(0))
        /\ \A j, k \in 1..Len(history) :
             j < k => KeySmaller(history[j].monthKey, history[k].monthKey)
        /\ \A i \in 1..Len(totals) :
             \A k \in pointsOf(totals[i].monthKey) :
               Cardinality(entriesLike(k, totals[i])) = Cardinality(rowsLike(totals[i]))

\* rows supplied later month first: a negative spending total alone in its
\* month, and a month with a spending row and an Income row
C20_Witness ==
  /\ HistoryBuilt
  /\ totals = <<[monthKey |-> Dec2024, category |-> "Dining", totalAmount |-> 10],
                [monthKey |-> Dec2024, category |-> "Income", totalAmount |-> 10],
                [monthKey |-> Nov2024, category |-> "Dining", totalAmount |-> -5]>>
  /\ response.result =
       <<[monthKey |-> Nov2024,
          perCategory |-> <<[category |-> "Dining", actual |-> R(-5)]>>,
          totalActual |-> R(0)],
         [monthKey |-> Dec2024,
          perCategory |-> <<[category |-> "Dining", actual |-> R(10)],
                            [category |-> "Income", actual |-> R(10)]>>,
          totalActual |-> R(10)]>>
-----------------------------------------------------------------------------
(* C21 *)

\* the predictor that made the forecast of the reply
PathOfReply ==
  IF \E i \in 1..Len(response.applied) : response.applied[i] = "fallbackForecast"
  THEN "naive"
  ELSE IF \E i \in 1..Len(response.applied) : response.applied[i] = "holtLinearPredict"
  THEN "holt"
  ELSE "pretrained"

\* the sum of the predictions of the first n entries that are above zero
RECURSIVE PositivePart(_, _)
PositivePart(perCategory, n) ==
  IF n = 0 THEN R(0)
  ELSE RAdd(PositivePart(perCategory, n - 1),
            IF RLess(R(0), perCategory[n].predicted) THEN perCategory[n].predicted
            ELSE R(0))

\* what the predictor of the reply computes for category c, before any floor
RawPrediction(c) ==
  LET series == buildCategorySeries(totals)
      months == series[CHOOSE k \in 1..Len(series) : series[k].category = c].months
      artifact == loadPretrainedArtifact(artifactFile)
  IN  CASE PathOfReply = "naive" -> R(LatestAmount(c))
        [] PathOfReply = "holt" -> holtLinearPredict(months)
        [] PathOfReply = "pretrained" -> PredictOne(ApplicableModel(artifact, c)[1], months)

\* C21: on the pretrained, the Holt and the naive path alike, totalPredicted
\* is the sum over forecast.perCategory of max(0, predicted), and every
\* predicted value is reported as the predictor computed it, in the
\* forecast and in safeToSpend: a negative prediction stays negative and
\* adds 0 to totalPredicted.
C21_ClippedTotalRawValues ==
  Forecasted =>
    LET perCategory == response.forecast.perCategory
    IN  /\ response.forecast.totalPredicted = PositivePart(perCategory, Len(perCategory))
        /\ Len(response.safeToSpend.perCategory) = Len(perCategory)
        /\ \A i \in 1..Len(perCategory) :
             /\ perCategory[i].predicted = RawPrediction(perCategory[i].category)
             /\ response.safeToSpend.perCategory[i].predicted = perCategory[i].predicted

\* Holt on a falling series (10, then -5) predicts -20 next to a category
\* predicted at 10: the total is 10
C21_Witness ==
  /\ Forecasted
  /\ PathOfReply = "holt"
  /\ \E i \in 1..Len(response.forecast.perCategory) :
       response.forecast.perCategory[i] = [category |-> "Dining", predicted |-> R(-20)]
  /\ \E i \in 1..Len(response.forecast.perCategory) :
       response.forecast.perCategory[i] = [category |-> "Gym", predicted |-> R(10)]
  /\ response.forecast.totalPredicted = R(10)
-----------------------------------------------------------------------------
(* C22 *)

\* the reply carries an income average
IncomeKnown == Forecasted /\ response.safeToSpend.avgMonthlyIncome # Null

\* C22: when avgMonthlyIncome is not null, with S the sum of max(0,
\* predicted) over the forecast categories: if S > 0 every safeBudget is
\* safeTotalBudget * max(0, predicted) / S, which is 0 for a category
\* predicted at or below 0; if S = 0 every safeBudget is safeTotalBudget /
\* numCategories; and no safeBudget is negative.
C22_Allocation ==
  IncomeKnown =>
    LET forecast == response.forecast.perCategory
        budgets == response.safeToSpend.perCategory
        safeTotalBudget == response.safeToSpend.safeTotalBudget
        S == PositivePart(forecast, Len(forecast))
        clipped(x) == IF RLess(x, R(0)) THEN R(0) ELSE x
    IN  /\ safeTotalBudget # Null
        /\ Len(budgets) = Len(forecast)
        /\ \A i \in 1..Len(budgets) :
             /\ budgets[i].category = forecast[i].category
             /\ RLess(R(0), S) =>
                  /\ budgets[i].safeBudget =
                       RDiv(RMul(safeTotalBudget, clipped(forecast[i].predicted)), S)
                  /\ ~RLess(R(0), forecast[i].predicted) => budgets[i].safeBudget = R(0)
             /\ S = R(0) =>
                  budgets[i].safeBudget = RDiv(safeTotalBudget, R(Len(forecast)))
             /\ ~RLess(budgets[i].safeBudget, R(0))
        /\ RLess(R(0), S) \/ S = R(0)

\* two categories both predicted below zero with an income of 10: S = 0 and
\* each gets half of the safe total of 8
C22_Witness ==
  /\ IncomeKnown
  /\ response.safeToSpend.safeTotalBudget = R(8)
  /\ Len(response.forecast.perCategory) = 2
  /\ \A i \in 1..2 :
       /\ response.forecast.perCategory[i].predicted = R(-5)
       /\ response.safeToSpend.perCategory[i].safeBudget = R(4)
-----------------------------------------------------------------------------
(* C23 *)

\* a category spelled 'income' in another letter case, or containing it
IncomeVariant(c) == c \in {"income", "Side Income"}

\* the totals without the rows of such categories
WithoutVariants ==
  LET plain(r) == ~IncomeVariant(r.category) IN SelectSeq(totals, plain)

\* C23: in the /forecast pipeline the series computeSafeToSpend takes for
\* the income is the series named exactly 'Income', which stands in the
\* series list before every series of another spelling, so the search by
\* substring is not reached; avgMonthlyIncome is the mean over the rows
\* named exactly 'Income' of the latest months, and is the same as for the
\* totals with the rows of every other spelling removed.
C23_CanonicalIncome ==
  Forecasted =>
    LET series == buildCategorySeries(totals)
        chosen == FindIncomeSeries(series)
        canonical == {i \in 1..Len(series) : series[i].category = "Income"}
        variants == {i \in 1..Len(series) : IncomeVariant(series[i].category)}
        avg == response.safeToSpend.avgMonthlyIncome
    IN  /\ Cardinality(canonical) = 1
        /\ \A i \in canonical : \A j \in variants : i < j
        /\ \A i \in canonical : chosen = <<series[i]>>
        /\ \E i \in 1..Len(series) : ToLowerCase(series[i].category) = "income"
        /\ IF IncomeRows = {} THEN avg = Null
           ELSE avg = Norm(SumAbsAmounts(RecentIncomeRows), Cardinality(RecentIncomeRows))
        /\ IF WithoutVariants = <<>> THEN avg = Null
           ELSE avg = ForecastHandler(WithoutVariants, artifactFile).safeToSpend.avgMonthlyIncome

\* one month with an 'Income' total of 10 next to an 'income' and a
\* 'Side Income' total of -5: the average is 10
C23_Witness ==
  /\ Forecasted
  /\ totals = <<[monthKey |-> Nov2024, category |-> "Income", totalAmount |-> 10],
                [monthKey |-> Nov2024, category |-> "income", totalAmount |-> -5],
                [monthKey |-> Nov2024, category |-> "Side Income", totalAmount |-> -5]>>
  /\ response.safeToSpend.avgMonthlyIncome = R(10)
-----------------------------------------------------------------------------
(* C24 *)

\* C24 as stated: after any sequence and any interleaving of POST /import
\* requests no two rows of the Transaction table have the same externalId,
\* also when one CSV holds the same row twice and when two imports of the
\* same rows run at once between the lookup of the existing ids and the
\* insert.
C24_AsStated ==
  \A j, k \in 1..Len(transactions) :
    j # k => transactions[j].externalId # transactions[k].externalId
====
